---- MODULE Spec2Model ----
(***************************************************************************)
(* Model of the FitFlow backend: the profile and notes repository          *)
(* (profiles.py), the generation gateway (AI.py) and the HTTP handlers     *)
(* (app.py).  Every handler is one action; the external calls a handler    *)
(* issues are recorded, in order, in `calls`.                              *)
(***************************************************************************)
EXTENDS Integers, Sequences, FiniteSets, TLC

VARIABLES
    profiles,   \* fitness_profiles collection: user id -> profile document
    notes,      \* notes collection: sequence of note documents, in store order
    nextId,     \* next note id the store assigns
    storeApi,   \* shape of the store's insert_one response: "id" or "insertedIds"
    env,        \* process environment: LANGFLOW_API_KEY and LANGFLOW_BASE_URL
    op,         \* the last operation handled
    req,        \* its arguments
    resp,       \* its outcome (HTTP status and body, or return value / exception)
    calls,      \* the calls issued while handling it (store, gateway, generation
                \* service), in order
    pre         \* the profile of the addressed user before the operation

vars == <<profiles, notes, nextId, storeApi, env, op, req, resp, calls, pre>>

(***************************************************************************)
(* Bounds of the model.                                                    *)
(***************************************************************************)
MaxGoals == 2
MaxNotes == 3
MaxLimit == 1
MaxFields == 2

Users == {"u1", "u2"}
ProfileUsers == {"u1"}
GoalNames == {"A", "B"}
Texts == {"squat", "run"}
Queries == {"squat"}

\* Python's None, and the test `not x` for a document-or-None.
None == [none |-> TRUE]
IsNone(x) == DOMAIN x = {"none"}

\* dict.update(kwargs): keys of kw overwrite, the other keys of d stay.
dict_update(d, kw) ==
    [k \in (DOMAIN d) \cup (DOMAIN kw) |-> IF k \in DOMAIN kw THEN kw[k] ELSE d[k]]

\* One external call, as recorded in `calls`.
Call(svc, fn, arg, ok) == [svc |-> svc, fn |-> fn, arg |-> arg, ok |-> ok]

(***************************************************************************)
(* profiles.py                                                             *)
(***************************************************************************)
get_default_profile(user_id) ==
    [_id |-> user_id,
     general |-> [name |-> "", age |-> 30, weight |-> 70, height |-> 170,
                  activity_level |-> "Moderately Active", gender |-> "Male"],
     goals |-> <<"Muscle Gain">>,
     nutrition |-> [calories |-> 2000, protein |-> 140, fat |-> 65, carbs |-> 200]]

\* Outcome of a repository function: the exception raised ("none" when it
\* returned), the value returned, the profile store afterwards and the calls.
Out(exc, val, store, log) == [exc |-> exc, val |-> val, store |-> store, log |-> log]

\* fitness_profiles_collection.find_one({"_id": user_id})
find_one(store, user_id) ==
    IF user_id \in DOMAIN store THEN store[user_id] ELSE None

\* create_profile: insert the default document, then read the assigned id
\* out of the store's response with result['id'].
create_profile(store, user_id, fail, log) ==
    LET pv   == get_default_profile(user_id)
        log1 == Append(log, Call("store", "insert_one", user_id, fail # "insert_one"))
        st1  == [u \in (DOMAIN store) \cup {user_id} |->
                    IF u = user_id THEN pv ELSE store[u]]
    IN  IF fail = "insert_one" THEN Out("StoreError", None, store, log1)
        ELSE IF storeApi # "id" THEN Out("KeyError", None, st1, log1)
        ELSE Out("none", [pv EXCEPT !._id = user_id], st1, log1)

get_profile(store, user_id, fail, log) ==
    LET log1 == Append(log, Call("store", "find_one", user_id, fail # "find_one"))
    IN  IF fail = "find_one" THEN Out("StoreError", None, store, log1)
        ELSE Out("none", find_one(store, user_id), store, log1)

\* apply_update with the goals list extended instead of replaced.
apply_update_extend(existing, update_field, kwargs) ==
    IF update_field = "goals"
    THEN [exc |-> "none",
          val |-> [existing EXCEPT !.goals =
                      @ \o (IF "goals" \in DOMAIN kwargs THEN kwargs.goals ELSE <<>>)]]
    ELSE IF update_field \notin DOMAIN existing
    THEN [exc |-> "KeyError", val |-> existing]
    ELSE IF update_field = "_id"
    THEN [exc |-> "AttributeError", val |-> existing]
    ELSE [exc |-> "none",
          val |-> [existing EXCEPT ![update_field] = dict_update(@, kwargs)]]

\* apply_update with the sub-object overwritten by the supplied fields.
apply_update_overwrite(existing, update_field, kwargs) ==
    IF update_field = "goals"
    THEN [exc |-> "none",
          val |-> [existing EXCEPT !.goals =
                      IF "goals" \in DOMAIN kwargs THEN kwargs.goals ELSE <<>>]]
    ELSE IF update_field \notin DOMAIN existing
    THEN [exc |-> "KeyError", val |-> existing]
    ELSE IF update_field = "_id"
    THEN [exc |-> "AttributeError", val |-> existing]
    ELSE [exc |-> "none", val |-> [existing EXCEPT ![update_field] = kwargs]]

\* The branch of update_profile that edits `existing` for the group.
apply_update(existing, update_field, kwargs) ==
    IF update_field = "goals"
    THEN [exc |-> "none",
          val |-> [existing EXCEPT !.goals =
                      IF "goals" \in DOMAIN kwargs THEN kwargs.goals ELSE <<>>]]
    ELSE IF update_field = "nutrition"
    THEN [exc |-> "none",
          val |-> [existing EXCEPT !.nutrition = dict_update(@, kwargs)]]
    ELSE IF update_field \notin DOMAIN existing
    THEN [exc |-> "KeyError", val |-> existing]
    ELSE IF update_field = "_id"
    THEN [exc |-> "AttributeError", val |-> existing]
    ELSE [exc |-> "none",
          val |-> [existing EXCEPT ![update_field] = dict_update(@, kwargs)]]

\* update_one({"_id": user_id}, {"$set": {update_field: value}})
update_one(store, user_id, update_field, value) ==
    IF user_id \in DOMAIN store
    THEN [store EXCEPT ![user_id][update_field] = value]
    ELSE store

update_profile(store, user_id, update_field, kwargs, fail, log) ==
    LET g  == get_profile(store, user_id, fail, log)
        c  == IF g.exc = "none" /\ IsNone(g.val)
              THEN create_profile(store, user_id, fail, g.log)
              ELSE g
    IN  IF c.exc # "none" THEN c
        ELSE LET a    == apply_update(c.val, update_field, kwargs)
                 log2 == Append(c.log, Call("store", "update_one", user_id,
                                            fail # "update_one"))
             IN  IF a.exc # "none" THEN Out(a.exc, None, c.store, c.log)
                 ELSE IF fail = "update_one"
                 THEN Out("StoreError", None, c.store, log2)
                 ELSE Out("none", a.val,
                          update_one(c.store, user_id, update_field,
                                     a.val[update_field]),
                          log2)

(***************************************************************************)
(* app.py: the profile endpoints                                           *)
(***************************************************************************)
\* `a, b = d`: unpacking iterates the keys of d and needs exactly two.
unpack_pair(d) ==
    IF Cardinality(DOMAIN d) = 2 THEN "none" ELSE "ValueError"

\* An HTTPException(status_code, ...) or a returned body.
Http(status, body) == [status |-> status, body |-> body]

\* GET /profile/{user_id}
get_user_profile(store, user_id, fail) ==
    LET g == get_profile(store, user_id, fail, <<>>)
    IN  IF g.exc # "none"
        THEN [resp |-> Http(500, None), store |-> g.store, log |-> g.log]
        ELSE IF IsNone(g.val)
        THEN LET c == create_profile(store, user_id, fail, g.log)
             IN  IF c.exc # "none" \/ unpack_pair(c.val) # "none"
                 THEN [resp |-> Http(500, None), store |-> c.store, log |-> c.log]
                 \* a two-key dict would bind user_id and profile to its keys
                 ELSE [resp |-> Http(200, [userId |-> "_id", profile |-> None]),
                       store |-> c.store, log |-> c.log]
        ELSE [resp |-> Http(200, [userId |-> user_id, profile |-> g.val]),
              store |-> g.store, log |-> g.log]

(***************************************************************************)
(* Inputs of the profile operations.                                       *)
(***************************************************************************)
RECURSIVE SeqsUpTo(_, _)
SeqsUpTo(S, n) ==
    IF n = 0 THEN {<<>>}
    ELSE LET shorter == SeqsUpTo(S, n - 1)
         IN  shorter \cup {Append(q, x) : q \in shorter, x \in S}

GoalLists == SeqsUpTo(GoalNames, MaxGoals)
EmptyKw == [k \in {} |-> TRUE]
GoalsKw == {[goals |-> g] : g \in GoalLists} \cup {EmptyKw}
NutritionKw == {[protein |-> 150], [calories |-> 1800, fiber |-> 30]}
GeneralKw == {[name |-> "Al"]}
Groups == {"general", "goals", "nutrition", "_id", "extras"}
KwFor(group) ==
    IF group = "goals" THEN GoalsKw
    ELSE IF group = "nutrition" THEN NutritionKw
    ELSE GeneralKw
StoreFailures == {"none", "find_one", "insert_one", "update_one"}

(***************************************************************************)
(* Actions on the profile store.                                           *)
(***************************************************************************)
GetUserProfile(u, fail) ==
    LET r == get_user_profile(profiles, u, fail)
    IN  /\ op' = "GET /profile"
        /\ req' = [userId |-> u]
        /\ resp' = r.resp
        /\ calls' = r.log
        /\ profiles' = r.store
        /\ pre' = find_one(profiles, u)
        /\ UNCHANGED <<notes, nextId, storeApi, env>>

UpdateProfile(u, group, kw, fail) ==
    LET r == update_profile(profiles, u, group, kw, fail, <<>>)
    IN  /\ op' = "update_profile"
        /\ req' = [userId |-> u, group |-> group, kwargs |-> kw]
        /\ resp' = [exc |-> r.exc, val |-> r.val]
        /\ calls' = r.log
        /\ profiles' = r.store
        /\ pre' = find_one(profiles, u)
        /\ UNCHANGED <<notes, nextId, storeApi, env>>

NoProfiles == [u \in {} |-> None]

InitProfiles ==
    /\ profiles = NoProfiles
    /\ notes = <<>>
    /\ nextId = 1
    /\ storeApi \in {"id", "insertedIds"}
    /\ env = [apiKey |-> "set", baseUrl |-> "set"]
    /\ op = "init"
    /\ req = None
    /\ resp = None
    /\ calls = <<>>
    /\ pre = None

NextProfiles ==
    \/ \E u \in ProfileUsers, fail \in StoreFailures : GetUserProfile(u, fail)
    \/ \E u \in ProfileUsers, group \in Groups, fail \in StoreFailures :
          \E kw \in KwFor(group) : UpdateProfile(u, group, kw, fail)

SpecProfiles == InitProfiles /\ [][NextProfiles]_vars

(***************************************************************************)
(* Claims about the profile store.                                         *)
(***************************************************************************)
\* C1: GET /profile/{userId} for an id with no stored profile answers 200
\* with the default profile (goals = <<"Muscle Gain">>) and leaves a profile
\* for that id in the store.
C1_GetCreatesDefault ==
    (op = "GET /profile" /\ IsNone(pre)) =>
        /\ resp.status = 200
        /\ ~IsNone(resp.body)
        /\ resp.body.userId = req.userId
        /\ resp.body.profile = get_default_profile(req.userId)
        /\ resp.body.profile.goals = <<"Muscle Gain">>
        /\ req.userId \in DOMAIN profiles

\* C3: update_profile with group "goals" and a supplied list N returns and
\* stores a profile whose goals are exactly N, whatever the goals were
\* before, and leaves general and nutrition as they were.
C3_GoalsReplaced ==
    (/\ op = "update_profile" /\ req.group = "goals"
     /\ "goals" \in DOMAIN req.kwargs /\ ~IsNone(pre) /\ resp.exc = "none") =>
        /\ resp.val.goals = req.kwargs.goals
        /\ profiles[req.userId].goals = req.kwargs.goals
        /\ resp.val.general = pre.general
        /\ resp.val.nutrition = pre.nutrition
        /\ profiles[req.userId].general = pre.general
        /\ profiles[req.userId].nutrition = pre.nutrition

\* A two-element list replaced a different non-empty list.
C3_Witness ==
    /\ op = "update_profile" /\ req.group = "goals" /\ resp.exc = "none"
    /\ ~IsNone(pre) /\ pre.goals = <<"A">>
    /\ "goals" \in DOMAIN req.kwargs /\ req.kwargs.goals = <<"B", "A">>
    /\ profiles[req.userId].goals = <<"B", "A">>

\* C4: update_profile with group "nutrition" or "general" returns and stores
\* the shallow merge of the existing sub-object with the supplied fields:
\* supplied keys take the supplied value, the other existing keys keep
\* theirs, no other key appears, and the other groups are unchanged.
Merged(m, E, F) ==
    /\ DOMAIN m = (DOMAIN E) \cup (DOMAIN F)
    /\ \A k \in DOMAIN F : m[k] = F[k]
    /\ \A k \in (DOMAIN E) \ (DOMAIN F) : m[k] = E[k]

C4_ShallowMerge ==
    (/\ op = "update_profile" /\ req.group \in {"nutrition", "general"}
     /\ ~IsNone(pre) /\ resp.exc = "none") =>
        LET g == req.group
            others == {"general", "goals", "nutrition"} \ {g}
        IN  /\ Merged(resp.val[g], pre[g], req.kwargs)
            /\ Merged(profiles[req.userId][g], pre[g], req.kwargs)
            /\ \A o \in others : /\ resp.val[o] = pre[o]
                                 /\ profiles[req.userId][o] = pre[o]

\* A merge that overwrote one key, added one and kept the rest.
C4_Witness ==
    /\ op = "update_profile" /\ req.group = "nutrition" /\ resp.exc = "none"
    /\ ~IsNone(pre) /\ pre.nutrition.protein = 140
    /\ "fiber" \notin DOMAIN pre.nutrition
    /\ req.kwargs = [calories |-> 1800, fiber |-> 30]
    /\ profiles[req.userId].nutrition.calories = 1800
    /\ profiles[req.userId].nutrition.fiber = 30
    /\ profiles[req.userId].nutrition.protein = 140

(***************************************************************************)
(* profiles.py: the notes collection.  The store's find is taken to yield  *)
(* the matching documents themselves, as the loops over its result expect. *)
(***************************************************************************)
\* Outcome of a notes function: exception, value, notes store, calls.
NOut(exc, val, store, log) == [exc |-> exc, val |-> val, store |-> store, log |-> log]

RECURSIVE SelectNotes(_, _)
\* fitness_notes_collection.find({"user_id": user_id}): store order kept.
SelectNotes(store, user_id) ==
    IF store = <<>> THEN <<>>
    ELSE IF Head(store).user_id = user_id
         THEN <<Head(store)>> \o SelectNotes(Tail(store), user_id)
         ELSE SelectNotes(Tail(store), user_id)

RECURSIVE TextFirst(_, _, _)
\* The notes of `found` whose text equals (wanted) or differs from the query.
TextFirst(found, search_text, wanted) ==
    IF found = <<>> THEN <<>>
    ELSE IF (Head(found).vectorize = search_text) = wanted
         THEN <<Head(found)>> \o TextFirst(Tail(found), search_text, wanted)
         ELSE TextFirst(Tail(found), search_text, wanted)

\* find(filter={"user_id": user_id}, sort={"$vectorize": search_text}):
\* the user's notes by descending similarity; a note whose text is the
\* query is more similar than one whose text is not.
vector_find(store, user_id, search_text) ==
    LET found == SelectNotes(store, user_id)
    IN  TextFirst(found, search_text, TRUE) \o TextFirst(found, search_text, FALSE)

\* A limit as Python receives it: a number num/den, or a value of a type
\* that does not compare with an int (a JSON string or null).
Num(n, d) == [kind |-> "num", num |-> n, den |-> d]
NotNum(kind) == [kind |-> kind, num |-> 0, den |-> 1]

\* len(results) > limit: the loop stops one note late.
len_ge_late(n, limit) ==
    IF limit.kind # "num" THEN "TypeError"
    ELSE IF n * limit.den > limit.num THEN "true" ELSE "false"

\* len(results) >= limit
len_ge(n, limit) ==
    IF limit.kind # "num" THEN "TypeError"
    ELSE IF n * limit.den >= limit.num THEN "true" ELSE "false"

RECURSIVE take_limit(_, _, _)
\* The loop of search_similar_notes over all_results.
take_limit(all_results, limit, results) ==
    IF all_results = <<>> THEN [exc |-> "none", val |-> results]
    ELSE LET stop == len_ge(Len(results), limit)
         IN  IF stop = "TypeError" THEN [exc |-> "TypeError", val |-> <<>>]
             ELSE IF stop = "true" THEN [exc |-> "none", val |-> results]
             ELSE take_limit(Tail(all_results), limit, Append(results, Head(all_results)))

\* search_similar_notes: every exception ends in `return []`.
search_similar_notes(store, search_text, user_id, limit, fail, log) ==
    LET log1 == Append(log, Call("store", "vector_find", user_id, fail # "find"))
        t    == take_limit(vector_find(store, user_id, search_text), limit, <<>>)
    IN  IF fail = "find" THEN NOut("none", <<>>, store, log1)
        ELSE IF t.exc # "none" THEN NOut("none", <<>>, store, log1)
        ELSE NOut("none", t.val, store, log1)

\* get_notes: the documents found are dicts already; a failure returns [].
get_notes(store, user_id, fail, log) ==
    LET log1 == Append(log, Call("store", "find", user_id, fail # "find"))
    IN  IF fail = "find" THEN NOut("none", <<>>, store, log1)
        ELSE NOut("none", SelectNotes(store, user_id), store, log1)

\* add_note: the note is returned only when the store's response carries
\* status.insertedIds; every other outcome is re-raised as ValueError.
add_note(store, note_text, user_id, id, fail, log) ==
    LET new_note == [user_id |-> user_id, text |-> note_text, vectorize |-> note_text]
        stored   == [_id |-> id, user_id |-> user_id, text |-> note_text,
                     vectorize |-> note_text]
        log1     == Append(log, Call("store", "insert_one", user_id, fail # "insert_one"))
    IN  IF fail = "insert_one" THEN NOut("ValueError", None, store, log1)
        ELSE IF storeApi = "insertedIds"
        THEN NOut("none", stored, Append(store, stored), log1)
        ELSE NOut("ValueError", None, Append(store, stored), log1)

(***************************************************************************)
(* app.py: the notes endpoints                                             *)
(***************************************************************************)
\* dict.get(key, default) on a request body.
body_get(body, key, default) ==
    IF key \in DOMAIN body THEN body[key] ELSE default

\* GET /notes/{user_id}
get_user_notes(store, user_id, fail) ==
    LET r == get_notes(store, user_id, fail, <<>>)
    IN  [resp  |-> IF r.exc # "none" THEN Http(500, None)
                   ELSE Http(200, [userId |-> user_id, notes |-> r.val]),
         store |-> r.store, log |-> r.log]

\* POST /notes
create_note(store, request, id, fail) ==
    LET r == add_note(store, request.text, request.userId, id, fail, <<>>)
    IN  [resp  |-> IF r.exc = "ValueError" THEN Http(400, None)
                   ELSE IF r.exc # "none" THEN Http(500, None)
                   ELSE Http(200, [note |-> r.val]),
         store |-> r.store, log |-> r.log]

\* The status the handler's `except Exception` turns an exception raised in
\* its try block into; the HTTPException(400) raised there is one of them.
except_Exception(raised) == 500

\* POST /notes/search
search_notes(store, request, fail) ==
    LET user_id == body_get(request, "userId", "")
        query   == body_get(request, "query", "")
        limit   == body_get(request, "limit", Num(5, 1))
    IN  IF user_id = ""
        THEN [resp |-> Http(except_Exception("HTTPException400"), None),
              store |-> store, log |-> <<>>]
        ELSE LET r == search_similar_notes(store, query, user_id, limit, fail, <<>>)
             IN  [resp  |-> IF r.exc # "none" THEN Http(except_Exception(r.exc), None)
                            ELSE Http(200, [results |-> r.val, count |-> Len(r.val)]),
                  store |-> r.store, log |-> r.log]

(***************************************************************************)
(* Inputs of the notes operations.                                         *)
(***************************************************************************)
IntLimits == {Num(n, 1) : n \in -1..MaxLimit}
JsonLimits == IntLimits \cup {Num(3, 2), NotNum("str"), NotNum("null")}
SearchBodies ==
    {[userId |-> u, query |-> q, limit |-> l] :
        u \in Users, q \in Queries, l \in JsonLimits}
    \cup {[userId |-> u, query |-> q] : u \in Users \cup {""}, q \in Queries}
    \cup {[query |-> q] : q \in Queries}
NoteBodies == {[userId |-> u, text |-> t] : u \in Users, t \in Texts}
FindFailures == {"none", "find"}
InsertFailures == {"none", "insert_one"}

(***************************************************************************)
(* Actions on the notes store.                                             *)
(***************************************************************************)
CreateNote(request, fail) ==
    /\ Len(notes) < MaxNotes
    /\ LET r == create_note(notes, request, nextId, fail)
       IN  /\ op' = "POST /notes"
           /\ req' = request
           /\ resp' = r.resp
           /\ calls' = r.log
           /\ notes' = r.store
           /\ nextId' = IF Len(r.store) > Len(notes) THEN nextId + 1 ELSE nextId
    /\ UNCHANGED <<profiles, storeApi, env, pre>>

GetUserNotes(u, fail) ==
    LET r == get_user_notes(notes, u, fail)
    IN  /\ op' = "GET /notes"
        /\ req' = [userId |-> u]
        /\ resp' = r.resp
        /\ calls' = r.log
        /\ UNCHANGED <<profiles, notes, nextId, storeApi, env, pre>>

SearchSimilarNotes(q, u, limit, fail) ==
    LET r == search_similar_notes(notes, q, u, limit, fail, <<>>)
    IN  /\ op' = "search_similar_notes"
        /\ req' = [userId |-> u, query |-> q, limit |-> limit]
        /\ resp' = [exc |-> r.exc, val |-> r.val]
        /\ calls' = r.log
        /\ UNCHANGED <<profiles, notes, nextId, storeApi, env, pre>>

SearchNotes(request, fail) ==
    LET r == search_notes(notes, request, fail)
    IN  /\ op' = "POST /notes/search"
        /\ req' = request
        /\ resp' = r.resp
        /\ calls' = r.log
        /\ UNCHANGED <<profiles, notes, nextId, storeApi, env, pre>>

InitNotes ==
    /\ profiles = NoProfiles
    /\ notes = <<>>
    /\ nextId = 1
    /\ storeApi \in {"id", "insertedIds"}
    /\ env = [apiKey |-> "set", baseUrl |-> "set"]
    /\ op = "init"
    /\ req = None
    /\ resp = None
    /\ calls = <<>>
    /\ pre = None

NextNotes ==
    \/ \E request \in NoteBodies, fail \in InsertFailures : CreateNote(request, fail)
    \/ \E u \in Users, fail \in FindFailures : GetUserNotes(u, fail)
    \/ \E q \in Queries, u \in Users, limit \in IntLimits \cup {Num(3, 1)},
          fail \in FindFailures : SearchSimilarNotes(q, u, limit, fail)
    \/ \E request \in SearchBodies, fail \in FindFailures : SearchNotes(request, fail)

SpecNotes == InitNotes /\ [][NextNotes]_vars

(***************************************************************************)
(* Claims about the notes store.                                           *)
(***************************************************************************)
\* The search the last operation made: its user, its limit and its result.
IsSearch ==
    \/ op = "search_similar_notes"
    \/ op = "POST /notes/search" /\ resp.status = 200
SearchUser == req.userId
SearchLimit == body_get(req, "limit", Num(5, 1))
SearchResult == IF op = "search_similar_notes" THEN resp.val ELSE resp.body.results

OwnNotesOnly ==
    \A i \in 1..Len(SearchResult) : SearchResult[i].user_id = SearchUser

\* C5 as stated: a search never returns more than `limit` entries, for
\* every limit including zero and negative ones, and never a note of
\* another user.
C5_AtMostLimit ==
    IsSearch =>
        /\ SearchLimit.kind = "num" =>
              Len(SearchResult) * SearchLimit.den <= SearchLimit.num
        /\ OwnNotesOnly

\* C5 amended: a search returns no entry when the limit is zero, negative
\* or not a number, and otherwise stops at the first length that reaches
\* the limit (at most `limit` entries for a positive integer limit, at most
\* the next integer above it for a fractional one); it never returns a
\* note of another user.
C5_AtMostLimitFromZero ==
    IsSearch =>
        /\ \/ Len(SearchResult) = 0
           \/ /\ SearchLimit.kind = "num"
              /\ (Len(SearchResult) - 1) * SearchLimit.den < SearchLimit.num
        /\ OwnNotesOnly

\* A search cut short by its limit while another user's note was stored.
C5_Witness ==
    /\ IsSearch
    /\ SearchLimit = Num(1, 1)
    /\ Len(SearchResult) = 1
    /\ Len(SelectNotes(notes, SearchUser)) = 2
    /\ \E i \in 1..Len(notes) : notes[i].user_id # SearchUser

\* C8: no external call is attempted again after it failed, and a failed
\* call other than the best-effort similarity search ends the request with
\* an error (an HTTP error status, or an exception from a repository call).
NoRetry ==
    \A i \in 1..Len(calls) : \A j \in (i + 1)..Len(calls) :
        ~calls[i].ok => calls[j].fn # calls[i].fn

IsError ==
    IF "status" \in DOMAIN resp THEN resp.status >= 400 ELSE resp.exc # "none"

C8_FailedCallFailsRequest ==
    op # "init" =>
        /\ NoRetry
        /\ (\E i \in 1..Len(calls) : ~calls[i].ok /\ calls[i].fn # "vector_find")
              => IsError

\* C10: POST /notes/search with a body lacking userId is answered 400 and
\* issues no similarity search.
C10_MissingUserIs400 ==
    (op = "POST /notes/search" /\ body_get(req, "userId", "") = "") =>
        /\ resp.status = 400
        /\ calls = <<>>

(***************************************************************************)
(* JSON values as Python holds them: a one-field record per type.  A dict  *)
(* is the sequence of its <<key, value>> pairs, in insertion order.        *)
(***************************************************************************)
JStr(x) == [str |-> x]
JNum(n) == [num |-> n]
JNull == [null |-> TRUE]
JList(l) == [list |-> l]
JDict(pairs) == [dict |-> pairs]
IsStr(j) == "str" \in DOMAIN j
IsNum(j) == "num" \in DOMAIN j
IsNull(j) == "null" \in DOMAIN j
IsList(j) == "list" \in DOMAIN j
IsDict(j) == "dict" \in DOMAIN j

\* key in d
dict_has(j, key) == \E i \in 1..Len(j.dict) : j.dict[i][1] = key
\* d[key], for a key that is in d
dict_at(j, key) == j.dict[CHOOSE i \in 1..Len(j.dict) : j.dict[i][1] = key][2]

\* Python truthiness.
Truthy(j) ==
    IF IsStr(j) THEN j.str # ""
    ELSE IF IsNum(j) THEN j.num # 0
    ELSE IF IsNull(j) THEN FALSE
    ELSE IF IsList(j) THEN j.list # <<>>
    ELSE j.dict # <<>>

RECURSIVE JoinStr(_, _)
\* sep.join(parts)
JoinStr(parts, sep) ==
    IF parts = <<>> THEN ""
    ELSE IF Len(parts) = 1 THEN parts[1]
    ELSE parts[1] \o sep \o JoinStr(Tail(parts), sep)

RECURSIVE PyRepr(_)
\* repr(x)
PyRepr(j) ==
    IF IsStr(j) THEN "'" \o j.str \o "'"
    ELSE IF IsNum(j) THEN ToString(j.num)
    ELSE IF IsNull(j) THEN "None"
    ELSE IF IsList(j)
    THEN "[" \o JoinStr([i \in 1..Len(j.list) |-> PyRepr(j.list[i])], ", ") \o "]"
    ELSE "{" \o JoinStr([i \in 1..Len(j.dict) |->
                            "'" \o j.dict[i][1] \o "': " \o PyRepr(j.dict[i][2])],
                        ", ") \o "}"

\* str(x): a string is itself, anything else is its repr.
PyStr(j) == IF IsStr(j) THEN j.str ELSE PyRepr(j)

\* x[step] for a step <<"key", k>> or <<"index", 0>>: the value, or the
\* exception the subscript raises.  The character a string yields at an
\* index is not tracked; every later subscript of it raises all the same.
Subscript(j, step) ==
    IF step[1] = "key"
    THEN IF IsDict(j)
         THEN IF dict_has(j, step[2])
              THEN [exc |-> "none", val |-> dict_at(j, step[2])]
              ELSE [exc |-> "KeyError", val |-> JNull]
         ELSE [exc |-> "TypeError", val |-> JNull]
    ELSE IF IsList(j)
         THEN IF Len(j.list) > step[2]
              THEN [exc |-> "none", val |-> j.list[step[2] + 1]]
              ELSE [exc |-> "IndexError", val |-> JNull]
         ELSE IF IsStr(j)
         THEN IF j.str # ""
              THEN [exc |-> "none", val |-> JStr("c")]
              ELSE [exc |-> "IndexError", val |-> JNull]
         ELSE IF IsDict(j) THEN [exc |-> "KeyError", val |-> JNull]
         ELSE [exc |-> "TypeError", val |-> JNull]

RECURSIVE Walk(_, _)
\* x[s1][s2]...[sn]
Walk(j, path) ==
    IF path = <<>> THEN [exc |-> "none", val |-> j]
    ELSE LET r == Subscript(j, Head(path))
         IN  IF r.exc # "none" THEN r ELSE Walk(r.val, Tail(path))

(***************************************************************************)
(* AI.py                                                                   *)
(***************************************************************************)
\* ["outputs"][0]["outputs"][0]["results"]["text"]["data"]["text"]
OldFormatPath ==
    << <<"key", "outputs">>, <<"index", 0>>, <<"key", "outputs">>, <<"index", 0>>,
       <<"key", "results">>, <<"key", "text">>, <<"key", "data">>, <<"key", "text">> >>

\* What _extract_text does with a payload none of its formats matches.
unmatched_payload(response_payload) ==
    [exc |-> "none", val |-> PyStr(response_payload)]

_extract_text(response_payload) ==
    IF IsDict(response_payload)
    THEN IF dict_has(response_payload, "result")
         THEN [exc |-> "none", val |-> PyStr(dict_at(response_payload, "result"))]
         ELSE LET old == Walk(response_payload, OldFormatPath)
              IN  IF old.exc = "none"
                  THEN [exc |-> "none", val |-> PyStr(old.val)]
                  ELSE IF dict_has(response_payload, "response")
                  THEN [exc |-> "none",
                        val |-> PyStr(dict_at(response_payload, "response"))]
                  ELSE IF dict_has(response_payload, "text")
                  THEN [exc |-> "none",
                        val |-> PyStr(dict_at(response_payload, "text"))]
                  ELSE unmatched_payload(response_payload)
    ELSE unmatched_payload(response_payload)

\* os.environ.get("LANGFLOW_API_KEY") is unset or empty.
api_key_missing == env.apiKey # "set"

\* os.environ.get("LANGFLOW_BASE_URL", "http://localhost:7860"): an unset
\* variable yields the default, an empty one the empty string.
base_url ==
    IF env.baseUrl = "unset" THEN "http://localhost:7860"
    ELSE IF env.baseUrl = "empty" THEN ""
    ELSE "http://langflow.example"

\* _call_flow: the base URL check, _get_headers() (first called to print the
\* headers), then one requests.post; a RequestException becomes ValueError.
\* `upstream` is what the generation service does with the request.
_call_flow(flow_path, tweaks, upstream, log) ==
    IF base_url = "" THEN [exc |-> "ValueError", val |-> JNull, log |-> log]
    ELSE IF api_key_missing THEN [exc |-> "ValueError", val |-> JNull, log |-> log]
    ELSE LET posted == Call("gen", "post",
                            [url |-> base_url \o "/api/v1/run/" \o flow_path,
                             tweaks |-> tweaks],
                            upstream.kind = "ok")
         IN  IF upstream.kind = "ok"
             THEN [exc |-> "none", val |-> upstream.payload, log |-> Append(log, posted)]
             ELSE [exc |-> "ValueError", val |-> JNull, log |-> Append(log, posted)]

\* get_workout_recommendation: every exception is re-raised as ValueError.
get_workout_recommendation(profile, question, upstream, log) ==
    LET r == _call_flow("ask-ai-v2-1", <<profile, question>>, upstream, log)
        t == _extract_text(r.val)
    IN  IF r.exc # "none" THEN [exc |-> "ValueError", val |-> "", log |-> r.log]
        ELSE IF t.exc # "none" THEN [exc |-> "ValueError", val |-> "", log |-> r.log]
        ELSE [exc |-> "none", val |-> t.val, log |-> r.log]

get_macro_plan(goal, profile, upstream, log) ==
    LET r == _call_flow("03ffb633-f1e5-42d6-84c9-e02b4cee1f41", <<goal, profile>>,
                        upstream, log)
        t == _extract_text(r.val)
    IN  IF r.exc # "none" THEN [exc |-> r.exc, val |-> "", log |-> r.log]
        ELSE [exc |-> t.exc, val |-> t.val, log |-> r.log]

(***************************************************************************)
(* app.py: profile flattening and the generation endpoints                 *)
(***************************************************************************)
\* The recognized fields in the order they are rendered: key, text before
\* the value, text after it.
KnownFields ==
    << <<"name", "Name: ", "">>, <<"age", "Age ", "">>, <<"gender", "Gender ", "">>,
       <<"height", "Height ", " cm">>, <<"weight", "Weight ", " kg">>,
       <<"bodyFat", "Body fat ", " %">>, <<"activity", "Activity level ", "">>,
       <<"goal", "Primary goal ", "">> >>
KnownKeys == {KnownFields[i][1] : i \in 1..Len(KnownFields)}

RECURSIVE known_segments(_, _)
known_segments(profile, fields) ==
    IF fields = <<>> THEN <<>>
    ELSE LET f == Head(fields)
             rest == known_segments(profile, Tail(fields))
         IN  IF dict_has(profile, f[1]) /\ Truthy(dict_at(profile, f[1]))
             THEN <<f[2] \o PyStr(dict_at(profile, f[1])) \o f[3]>> \o rest
             ELSE rest

RECURSIVE extra_segments(_)
\* key: value for every other pair whose value is neither "" nor None.
extra_segments(pairs) ==
    IF pairs = <<>> THEN <<>>
    ELSE LET kv == Head(pairs)
             rest == extra_segments(Tail(pairs))
         IN  IF kv[1] \notin KnownKeys /\ kv[2] # JStr("") /\ ~IsNull(kv[2])
             THEN <<kv[1] \o ": " \o PyStr(kv[2])>> \o rest
             ELSE rest

\* Flattening without the placeholder for a profile that yields no segment.
_profile_dict_to_string_joined(profile) ==
    JoinStr(known_segments(profile, KnownFields) \o extra_segments(profile.dict), ", ")

_profile_dict_to_string(profile) ==
    LET segments == known_segments(profile, KnownFields) \o extra_segments(profile.dict)
    IN  IF segments # <<>> THEN JoinStr(segments, ", ")
        ELSE "No profile details provided"

\* POST /macro-plan
macro_plan_endpoint(request, upstream) ==
    LET profile_str == _profile_dict_to_string(request.profile)
        r == get_macro_plan(request.goal, profile_str, upstream, <<>>)
    IN  [resp |-> IF r.exc = "ValueError" THEN Http(400, None)
                  ELSE IF r.exc # "none" THEN Http(500, None)
                  ELSE Http(200, [text |-> r.val]),
         log  |-> r.log]

RECURSIVE context_parts(_)
\* "- <text>" for every found note with a non-empty text.
context_parts(similar_notes) ==
    IF similar_notes = <<>> THEN <<>>
    ELSE IF Head(similar_notes).text # ""
         THEN <<"- " \o Head(similar_notes).text>> \o context_parts(Tail(similar_notes))
         ELSE context_parts(Tail(similar_notes))

\* The notes lookup of the advice handler although no user id was given.
advice_context_always(store, request, fail) ==
    LET r == search_similar_notes(store, request.question,
                                  body_get(request, "userId", ""), Num(3, 1), fail, <<>>)
        parts == context_parts(r.val)
    IN  [context |-> IF parts # <<>>
                     THEN "\n\n**Relevant context from your notes:**\n"
                          \o JoinStr(parts, "\n")
                     ELSE "",
         log |-> r.log]

\* The notes lookup of the advice handler asking for five notes, the
\* default of the search endpoint, instead of three.
advice_context_five(store, request, fail) ==
    IF body_get(request, "userId", "") = ""
    THEN [context |-> "", log |-> <<>>]
    ELSE LET r == search_similar_notes(store, request.question, request.userId,
                                       Num(5, 1), fail, <<>>)
             parts == context_parts(r.val)
         IN  [context |-> IF parts # <<>>
                          THEN "\n\n**Relevant context from your notes:**\n"
                               \o JoinStr(parts, "\n")
                          ELSE "",
              log |-> r.log]

\* The notes lookup of the advice handler: only for a non-empty userId.
advice_context(store, request, fail) ==
    IF body_get(request, "userId", "") = ""
    THEN [context |-> "", log |-> <<>>]
    ELSE LET r == search_similar_notes(store, request.question, request.userId,
                                       Num(3, 1), fail, <<>>)
             parts == context_parts(r.val)
         IN  [context |-> IF parts # <<>>
                          THEN "\n\n**Relevant context from your notes:**\n"
                               \o JoinStr(parts, "\n")
                          ELSE "",
              log |-> r.log]

\* POST /workout-advice
workout_advice_endpoint(store, request, upstream, fail) ==
    LET profile_summary ==
            IF body_get(request, "profileSummary", "") # ""
            THEN request.profileSummary
            ELSE IF "profile" \in DOMAIN request
            THEN _profile_dict_to_string(request.profile)
            ELSE ""
        c == advice_context(store, request, fail)
        enhanced_question ==
            IF c.context # "" THEN request.question \o c.context ELSE request.question
        r == get_workout_recommendation(profile_summary, enhanced_question,
                                        upstream, <<>>)
        \* the handler's one call of the gateway, then the post it led to
        invoked == Call("gateway", "get_workout_recommendation",
                        [tweaks |-> <<profile_summary, enhanced_question>>],
                        r.exc = "none")
    IN  [resp |-> IF r.exc = "ValueError" THEN Http(400, None)
                  ELSE IF r.exc # "none" THEN Http(500, None)
                  ELSE Http(200, [text |-> r.val]),
         log  |-> c.log \o <<invoked>> \o r.log]

(***************************************************************************)
(* Inputs of the generation operations.                                    *)
(***************************************************************************)
NestedPayload(text) ==
    JDict(<< <<"outputs", JList(<< JDict(<< <<"outputs", JList(<<
        JDict(<< <<"results", JDict(<< <<"text", JDict(<< <<"data",
            JDict(<< <<"text", text>> >>)>> >>)>> >>)>> >>) >>)>> >>) >>)>> >>)

ResultPayload == JDict(<< <<"result", JStr("X")>> >>)
UnknownPayload == JDict(<< <<"detail", JStr("Z")>> >>)
Payloads ==
    {ResultPayload, UnknownPayload,
     NestedPayload(JStr("Y")),
     JDict(<< <<"response", JStr("R")>> >>),
     JDict(<< <<"text", JStr("T")>> >>),
     JDict(<< <<"result", JStr("X")>>, <<"text", JStr("T")>> >>),
     JDict(<< <<"result", JNum(7)>> >>),
     JDict(<< <<"result", JNull>> >>),
     JDict(<<>>),
     JDict(<< <<"outputs", JList(<<>>)>> >>),
     JDict(<< <<"outputs", JList(<<>>)>>, <<"text", JStr("T")>> >>),
     JDict(<< <<"outputs", JStr("s")>>, <<"response", JStr("R")>> >>),
     JList(<<JStr("X")>>),
     JStr("plain")}

Upstreams ==
    {[kind |-> "ok", payload |-> p] : p \in {ResultPayload, UnknownPayload}}
    \cup {[kind |-> k, payload |-> JNull] : k \in {"unreachable", "timeout", "http_error"}}

ProfileDicts ==
    {JDict(<<>>),
     JDict(<< <<"name", JStr("Al")>>, <<"age", JNum(30)>> >>),
     JDict(<< <<"diet", JStr("vegan")>>, <<"name", JStr("")>>, <<"goal", JStr("cut")>> >>)}

\* The bodies that carry the optional field `key` with a value of vals, or not.
Opt(key, vals) == {EmptyKw} \cup {[k \in {key} |-> v] : v \in vals}

AdviceBodies ==
    {[question |-> "Q"] @@ a @@ b @@ c :
        a \in Opt("profileSummary", {"S"}),
        b \in Opt("profile", {JDict(<< <<"name", JStr("Al")>>, <<"age", JNum(30)>> >>)}),
        c \in Opt("userId", Users \cup {""})}

MacroBodies == {[goal |-> "build muscle", profile |-> p] : p \in ProfileDicts}

\* A store that holds more notes of u1 than the advice handler asks for.
SeedNotes ==
    << [_id |-> 1, user_id |-> "u1", text |-> "run", vectorize |-> "run"],
       [_id |-> 2, user_id |-> "u2", text |-> "squat", vectorize |-> "squat"],
       [_id |-> 3, user_id |-> "u1", text |-> "Q", vectorize |-> "Q"],
       [_id |-> 4, user_id |-> "u1", text |-> "", vectorize |-> ""],
       [_id |-> 5, user_id |-> "u1", text |-> "squat", vectorize |-> "squat"],
       [_id |-> 6, user_id |-> "u1", text |-> "run", vectorize |-> "run"] >>

\* A store whose four notes of u1 all carry a text.
FullNotes ==
    << [_id |-> 1, user_id |-> "u1", text |-> "run", vectorize |-> "run"],
       [_id |-> 2, user_id |-> "u1", text |-> "squat", vectorize |-> "squat"],
       [_id |-> 3, user_id |-> "u1", text |-> "Q", vectorize |-> "Q"],
       [_id |-> 4, user_id |-> "u1", text |-> "walk", vectorize |-> "walk"] >>

EnvSettings == {"unset", "empty", "set"}

(***************************************************************************)
(* Actions of the generation gateway and its endpoints.                    *)
(***************************************************************************)
ExtractText(p) ==
    LET r == _extract_text(p)
    IN  /\ op' = "_extract_text"
        /\ req' = [payload |-> p]
        /\ resp' = r
        /\ calls' = <<>>
        /\ UNCHANGED <<profiles, notes, nextId, storeApi, env, pre>>

GetMacroPlan(goal, profile, upstream) ==
    LET r == get_macro_plan(goal, profile, upstream, <<>>)
    IN  /\ op' = "get_macro_plan"
        /\ req' = [goal |-> goal, summary |-> profile, upstream |-> upstream]
        /\ resp' = [exc |-> r.exc, val |-> r.val]
        /\ calls' = r.log
        /\ UNCHANGED <<profiles, notes, nextId, storeApi, env, pre>>

GetWorkoutRecommendation(profile, question, upstream) ==
    LET r == get_workout_recommendation(profile, question, upstream, <<>>)
    IN  /\ op' = "get_workout_recommendation"
        /\ req' = [summary |-> profile, question |-> question, upstream |-> upstream]
        /\ resp' = [exc |-> r.exc, val |-> r.val]
        /\ calls' = r.log
        /\ UNCHANGED <<profiles, notes, nextId, storeApi, env, pre>>

MacroPlan(request, upstream) ==
    LET r == macro_plan_endpoint(request, upstream)
    IN  /\ op' = "POST /macro-plan"
        /\ req' = request
        /\ resp' = r.resp
        /\ calls' = r.log
        /\ UNCHANGED <<profiles, notes, nextId, storeApi, env, pre>>

WorkoutAdvice(request, upstream, fail) ==
    LET r == workout_advice_endpoint(notes, request, upstream, fail)
    IN  /\ op' = "POST /workout-advice"
        /\ req' = request
        /\ resp' = r.resp
        /\ calls' = r.log
        /\ UNCHANGED <<profiles, notes, nextId, storeApi, env, pre>>

InitGateway ==
    /\ profiles = NoProfiles
    /\ notes \in {<<>>, SeedNotes, FullNotes}
    /\ nextId = Len(notes) + 1
    /\ storeApi = "insertedIds"
    /\ env \in [apiKey : EnvSettings, baseUrl : EnvSettings]
    /\ op = "init"
    /\ req = None
    /\ resp = None
    /\ calls = <<>>
    /\ pre = None

NextGateway ==
    \/ \E p \in Payloads : ExtractText(p)
    \/ \E upstream \in Upstreams : GetMacroPlan("build muscle", "Age 30", upstream)
    \/ \E upstream \in Upstreams : GetWorkoutRecommendation("Age 30", "Q", upstream)
    \/ \E request \in MacroBodies, upstream \in Upstreams : MacroPlan(request, upstream)
    \/ \E request \in AdviceBodies, upstream \in Upstreams, fail \in FindFailures :
          WorkoutAdvice(request, upstream, fail)
    \/ \E q \in Queries, u \in Users, limit \in IntLimits \cup {Num(3, 1)},
          fail \in FindFailures : SearchSimilarNotes(q, u, limit, fail)

SpecGateway == InitGateway /\ [][NextGateway]_vars

(***************************************************************************)
(* Claims about the generation gateway and its endpoints.                  *)
(***************************************************************************)
\* The posts to the generation service among the calls of the last operation.
GenPosts == {i \in 1..Len(calls) : calls[i].svc = "gen"}
StoreLookups == {i \in 1..Len(calls) : calls[i].svc = "store"}

\* A dict payload with none of: result, the nested outputs path, response, text.
NoKnownShape(p) ==
    /\ IsDict(p)
    /\ ~dict_has(p, "result")
    /\ Walk(p, OldFormatPath).exc # "none"
    /\ ~dict_has(p, "response")
    /\ ~dict_has(p, "text")

\* C2: _extract_text returns the top-level result as text, returns the text
\* at outputs[0].outputs[0].results.text.data.text, and raises the format
\* error for a payload that matches none of the recognized shapes.
C2_ExtractOrRaise ==
    op = "_extract_text" =>
        LET p == req.payload
        IN  /\ (IsDict(p) /\ dict_has(p, "result")) =>
                  (resp.exc = "none" /\ resp.val = PyStr(dict_at(p, "result")))
            /\ (IsDict(p) /\ ~dict_has(p, "result")
                  /\ Walk(p, OldFormatPath).exc = "none") =>
                  (resp.exc = "none" /\ resp.val = PyStr(Walk(p, OldFormatPath).val))
            /\ NoKnownShape(p) => resp.exc # "none"

\* C6: a /workout-advice request without a userId (absent or empty) issues
\* no notes lookup, and the generation call carries the question unchanged.
C6_NoLookupWithoutUser ==
    (op = "POST /workout-advice" /\ body_get(req, "userId", "") = "") =>
        /\ StoreLookups = {}
        /\ \A i \in GenPosts : calls[i].arg.tweaks[2] = req.question

\* Such a request reached the generation service while notes were stored.
C6_Witness ==
    /\ op = "POST /workout-advice"
    /\ "userId" \notin DOMAIN req
    /\ notes # <<>>
    /\ GenPosts # {}
    /\ resp.status = 200

\* C7: POST /macro-plan answers 500 when generation fails (the service is
\* unreachable, times out or answers a non-2xx status).
C7_GenerationFailureIs500 ==
    (op = "POST /macro-plan" /\ \E i \in GenPosts : ~calls[i].ok) =>
        resp.status = 500

\* C9: a generation call made while the API key or the base URL is absent
\* fails with the configuration error and posts nothing.
C9_ConfigErrorNoPost ==
    (/\ op \in {"get_macro_plan", "get_workout_recommendation"}
     /\ (env.apiKey # "set" \/ env.baseUrl # "set")) =>
        /\ resp.exc = "ValueError"
        /\ GenPosts = {}

(***************************************************************************)
(* Profile flattening on its own: the profile object is drawn at the       *)
(* start, the one action flattens it.                                      *)
(***************************************************************************)
FlatKeys == {"name", "age", "goal", "diet", "note"}
FlatValues == {JStr(""), JStr("Al"), JNum(0), JNum(30), JNull}

RECURSIVE DictsUpTo(_)
\* The dicts of at most n pairs over FlatKeys and FlatValues, keys distinct,
\* in every insertion order.
DictsUpTo(n) ==
    IF n = 0 THEN {<<>>}
    ELSE LET shorter == DictsUpTo(n - 1)
         IN  shorter \cup
             {Append(d, <<k, v>>) :
                 d \in {x \in shorter : Len(x) = n - 1},
                 k \in FlatKeys, v \in FlatValues}

DistinctKeys(pairs) ==
    \A i \in 1..Len(pairs) : \A j \in (i + 1)..Len(pairs) : pairs[i][1] # pairs[j][1]

FlatProfiles == {JDict(d) : d \in {x \in DictsUpTo(MaxFields) : DistinctKeys(x)}}

FlattenProfile ==
    /\ op = "init"
    /\ op' = "_profile_dict_to_string"
    /\ resp' = [exc |-> "none", val |-> _profile_dict_to_string(req.profile)]
    /\ calls' = <<>>
    /\ UNCHANGED <<profiles, notes, nextId, storeApi, env, req, pre>>

InitFlatten ==
    /\ profiles = NoProfiles
    /\ notes = <<>>
    /\ nextId = 1
    /\ storeApi = "insertedIds"
    /\ env = [apiKey |-> "set", baseUrl |-> "set"]
    /\ op = "init"
    /\ req \in {[profile |-> p] : p \in FlatProfiles}
    /\ resp = None
    /\ calls = <<>>
    /\ pre = None

NextFlatten == FlattenProfile

SpecFlatten == InitFlatten /\ [][NextFlatten]_vars

(***************************************************************************)
(* Claim about profile flattening.                                         *)
(***************************************************************************)
RECURSIVE Ascending(_)
\* The numbers of S in ascending order.
Ascending(S) ==
    IF S = {} THEN <<>>
    ELSE LET m == CHOOSE x \in S : \A y \in S : x <= y
         IN  <<m>> \o Ascending(S \ {m})

\* The recognized fields that carry a non-empty (truthy) value, by their
\* place in the fixed order, and the extra pairs whose value is neither ""
\* nor null, by their place in the profile.
ShownKnown(p) ==
    {i \in 1..Len(KnownFields) :
        \E n \in 1..Len(p.dict) :
            p.dict[n][1] = KnownFields[i][1] /\ Truthy(p.dict[n][2])}
ShownExtra(p) ==
    {n \in 1..Len(p.dict) :
        /\ p.dict[n][1] \notin KnownKeys
        /\ ~IsNull(p.dict[n][2])
        /\ ~(IsStr(p.dict[n][2]) /\ p.dict[n][2].str = "")}

KnownFragment(p, i) ==
    LET v == p.dict[CHOOSE n \in 1..Len(p.dict) : p.dict[n][1] = KnownFields[i][1]][2]
        shown == IF IsStr(v) THEN v.str ELSE ToString(v.num)
    IN  KnownFields[i][2] \o shown \o KnownFields[i][3]
ExtraFragment(p, n) ==
    LET v == p.dict[n][2]
    IN  p.dict[n][1] \o ": " \o (IF IsStr(v) THEN v.str ELSE ToString(v.num))

Fragments(p) ==
    LET known == Ascending(ShownKnown(p))
        extra == Ascending(ShownExtra(p))
    IN  [i \in 1..Len(known) |-> KnownFragment(p, known[i])]
        \o [i \in 1..Len(extra) |-> ExtraFragment(p, extra[i])]

\* C11: flattening never returns the empty string; it returns the
\* placeholder exactly when the profile yields no fragment, and otherwise
\* the fragments joined by ", ", the recognized fields first in their fixed
\* order, then the extras as `key: value` in the profile's order.
C11_FlattenNeverEmpty ==
    op = "_profile_dict_to_string" =>
        LET p == req.profile
            none == ShownKnown(p) = {} /\ ShownExtra(p) = {}
        IN  /\ resp.val # ""
            /\ (resp.val = "No profile details provided") <=> none
            /\ ~none => resp.val = JoinStr(Fragments(p), ", ")

\* An extra inserted before a recognized field is rendered after it.
C11_Witness ==
    /\ op = "_profile_dict_to_string"
    /\ req.profile = JDict(<< <<"diet", JNum(0)>>, <<"goal", JStr("Al")>> >>)
    /\ resp.val = "Primary goal Al, diet: 0"

(***************************************************************************)
(* Claim about the best-effort notes lookup.                               *)
(***************************************************************************)
\* The number of notes the advice handler asks for.
AdviceNotes == 3
ContextHeader == "\n\n**Relevant context from your notes:**\n"

Lookups == {i \in 1..Len(calls) : calls[i].fn = "vector_find"}
GatewayCalls == {i \in 1..Len(calls) : calls[i].svc = "gateway"}

\* The questions made of `question` and a context block of one to
\* AdviceNotes non-empty texts of the user's stored notes.
WithContext(question, user_id) ==
    LET found == SelectNotes(notes, user_id)
        texts == {found[i].text : i \in 1..Len(found)} \ {""}
    IN  {question \o ContextHeader \o JoinStr([i \in 1..Len(q) |-> "- " \o q[i]], "\n") :
            q \in {x \in SeqsUpTo(texts, AdviceNotes) : x # <<>>}}

\* C12: search_similar_notes answers a store failure with an empty
\* sequence and no exception; a /workout-advice request with a userId makes
\* one lookup and then exactly one generation call, which carries the
\* unmodified question when the lookup failed or found nothing and
\* otherwise the question followed by a context block of at most three
\* note texts; at most one request is posted, after the lookup.
C12_BestEffortLookup ==
    /\ (op = "search_similar_notes" /\ \E i \in 1..Len(calls) : ~calls[i].ok) =>
          (resp.exc = "none" /\ resp.val = <<>>)
    /\ (op = "POST /workout-advice" /\ body_get(req, "userId", "") # "") =>
          /\ Cardinality(Lookups) = 1
          /\ Cardinality(GatewayCalls) = 1
          /\ Cardinality(GenPosts) <= 1
          /\ \A i \in Lookups : \A j \in GatewayCalls \cup GenPosts : i < j
          /\ \A j \in GatewayCalls :
                LET asked == calls[j].arg.tweaks[2]
                    nothing == \/ \E i \in Lookups : ~calls[i].ok
                               \/ SelectNotes(notes, req.userId) = <<>>
                IN  /\ nothing => asked = req.question
                    /\ \/ asked = req.question
                       \/ asked \in WithContext(req.question, req.userId)
                    /\ \A k \in GenPosts : calls[k].arg.tweaks[2] = asked

\* Three of the four notes of u1 were appended and the advice was returned.
C12_Witness ==
    /\ op = "POST /workout-advice"
    /\ body_get(req, "userId", "") = "u1"
    /\ notes = FullNotes
    /\ \E j \in GatewayCalls :
          calls[j].arg.tweaks[2] = "Q" \o ContextHeader \o "- Q\n- run\n- squat"
    /\ GenPosts # {}
    /\ resp.status = 200

(***************************************************************************)
(* app.py: POST /profile                                                   *)
(***************************************************************************)
\* The ids str(uuid4()) can yield.
FreshIds == {"n1", "n2"}

\* request.userId or str(uuid4())
post_user_id(request, fresh) ==
    IF body_get(request, "userId", "") # "" THEN request.userId ELSE fresh

\* The keys of update_data, in the order the handler inserts them.
update_data_keys(request) ==
    SelectSeq(<<"general", "goals", "nutrition">>, LAMBDA g : g \in DOMAIN request)

\* f(**value): request.goals is a list, which is not a mapping.
double_star(update_field) ==
    IF update_field = "goals" THEN "TypeError" ELSE "none"

create_or_update_profile(store, request, fresh, fail) ==
    LET user_id == post_user_id(request, fresh)
        g       == get_profile(store, user_id, fail, <<>>)
        failed(st, log) == [resp |-> Http(500, None), store |-> st, log |-> log]
    IN  IF g.exc # "none" THEN failed(g.store, g.log)
        ELSE IF IsNone(g.val)
        THEN LET c == create_profile(store, user_id, fail, g.log)
             IN  IF c.exc # "none" \/ unpack_pair(c.val) # "none"
                 THEN failed(c.store, c.log)
                 \* a two-key dict would bind user_id and existing to its keys
                 ELSE [resp |-> Http(200, [userId |-> "_id", profile |-> None]),
                       store |-> c.store, log |-> c.log]
        ELSE LET keys == update_data_keys(request)
             IN  IF keys = <<>>
                 THEN [resp |-> Http(200, [userId |-> user_id, profile |-> g.val]),
                       store |-> g.store, log |-> g.log]
                 ELSE IF double_star(keys[1]) # "none"
                 THEN failed(g.store, g.log)
                 ELSE LET u == update_profile(g.store, user_id, keys[1],
                                              request[keys[1]], fail, g.log)
                      IN  IF u.exc # "none" THEN failed(u.store, u.log)
                          ELSE [resp |-> Http(200, [userId |-> user_id,
                                                   profile |-> u.val]),
                                store |-> u.store, log |-> u.log]

PostBodies ==
    {a @@ b @@ c @@ d :
        a \in Opt("userId", ProfileUsers),
        b \in Opt("general", GeneralKw),
        c \in Opt("goals", {<<"B">>}),
        d \in Opt("nutrition", NutritionKw)}

CreateOrUpdateProfile(request, fresh, fail) ==
    LET r == create_or_update_profile(profiles, request, fresh, fail)
    IN  /\ op' = "POST /profile"
        /\ req' = request
        /\ resp' = r.resp
        /\ calls' = r.log
        /\ profiles' = r.store
        /\ pre' = find_one(profiles, post_user_id(request, fresh))
        /\ UNCHANGED <<notes, nextId, storeApi, env>>

InitPostProfile ==
    /\ profiles \in {NoProfiles,
                     [u \in ProfileUsers |-> get_default_profile(u)]}
    /\ notes = <<>>
    /\ nextId = 1
    /\ storeApi \in {"id", "insertedIds"}
    /\ env = [apiKey |-> "set", baseUrl |-> "set"]
    /\ op = "init"
    /\ req = None
    /\ resp = None
    /\ calls = <<>>
    /\ pre = None

\* uuid4 is drawn only when the request carries no userId, and is unused.
NextPostProfile ==
    \E request \in PostBodies, fail \in StoreFailures :
        \E fresh \in (IF body_get(request, "userId", "") # ""
                      THEN {"unused"} ELSE FreshIds \ DOMAIN profiles) :
            CreateOrUpdateProfile(request, fresh, fail)

SpecPostProfile == InitPostProfile /\ [][NextPostProfile]_vars

(***************************************************************************)
(* Claim about POST /profile.                                              *)
(***************************************************************************)
ProfileGroups == {"general", "goals", "nutrition"}

\* `profile` shows every group the request supplies and has the groups it
\* does not supply as they are in `before`.
ReflectsRequest(profile, before) ==
    /\ "goals" \in DOMAIN req => profile.goals = req.goals
    /\ \A g \in {"general", "nutrition"} \cap DOMAIN req :
          \A k \in DOMAIN req[g] :
              k \in DOMAIN profile[g] /\ profile[g][k] = req[g][k]
    /\ \A g \in ProfileGroups \ DOMAIN req : profile[g] = before[g]

\* C13: a POST /profile whose store calls all succeed answers 200 for the
\* requested (or a new) id, and the returned and the stored profile show
\* every supplied group (goals equal to the supplied list, general and
\* nutrition holding every supplied field) while the groups not supplied
\* are as before the request (as in the default profile for a new id);
\* with no group supplied that is the existing or default profile unchanged.
C13_PostProfileAppliesGroups ==
    (op = "POST /profile" /\ \A i \in 1..Len(calls) : calls[i].ok) =>
        /\ resp.status = 200
        /\ "userId" \in DOMAIN req => resp.body.userId = req.userId
        /\ resp.body.userId \in DOMAIN profiles
        /\ LET before == IF IsNone(pre)
                         THEN get_default_profile(resp.body.userId) ELSE pre
           IN  /\ ReflectsRequest(resp.body.profile, before)
               /\ ReflectsRequest(profiles[resp.body.userId], before)

====
